---- MODULE Spec2Model ----
(***************************************************************************)
(* Model of weather_data_analysis_prediction.py: analyze_weather_data and  *)
(* main.  One run of the command line tool is a behaviour: the CSV file is *)
(* read, the seven analysis steps run in order, the report is returned or  *)
(* printed, and main ends the process.                                     *)
(*                                                                         *)
(* Numbers.  Kelvin temperatures and day counts are integers.  A nullable  *)
(* cell (pandas NaN) is the empty tuple NaN, a present value v is <<v>>.   *)
(* Quantiles are kept exactly as integers scaled by 4 (quarters), Tukey    *)
(* fences scaled by 8 (eighths); values rounded with round(x, 2) are kept  *)
(* in hundredths.                                                          *)
(***************************************************************************)
EXTENDS Integers, Sequences, FiniteSets, TLC

VARIABLES
    args,           \* argparse namespace: csv_file, output, min_days
    pc,             \* position inside main / analyze_weather_data
    df,             \* the DataFrame: [columns, rows]
    temporal_data,  \* local of analyze_weather_data (lines 42-59)
    results,        \* the results dictionary (lines 22-30)
    exc,            \* the exception in flight, None when there is none
    stdout,         \* what has been printed, in order
    result,         \* main's `result`: what analyze_weather_data returned
    exit_code       \* the process exit status, None while running

vars == <<args, pc, df, temporal_data, results, exc, stdout, result, exit_code>>

----------------------------------------------------------------------------
(* Bounds of the model *)

MaxRows == 3        \* rows of a dataset that varies city, location and date
MaxTempRows == 4    \* rows of a dataset that varies temp
MaxQRows == 4       \* rows of a dataset that varies temp, temp_min, temp_max
MaxDays == 366      \* days of a one-location daily dataset

----------------------------------------------------------------------------
(* Values *)

None == <<>>
NaN == <<>>
Some(v) == <<v>>
Val(x) == x[1]
IsNull(x) == x = NaN

Columns == {"date", "city", "latitude", "longitude", "temp", "temp_min",
            "temp_max", "pressure", "humidity", "wind_speed", "description"}

EmptyDict == <<>>

SetMin(S) == CHOOSE x \in S : \A y \in S : x <= y
SetMax(S) == CHOOSE x \in S : \A y \in S : x >= y

----------------------------------------------------------------------------
(* Dates: the text YYYY-MM-DD is the triple <<y, m, d>>; a Timestamp is    *)
(* the number of days since 2024-01-01.                                    *)

IsLeap(y) == (y % 4 = 0 /\ y % 100 # 0) \/ y % 400 = 0

DaysInMonth(y, m) ==
    IF m = 2 THEN (IF IsLeap(y) THEN 29 ELSE 28)
    ELSE IF m \in {4, 6, 9, 11} THEN 30 ELSE 31

DaysInYear(y) == IF IsLeap(y) THEN 366 ELSE 365

ValidDate(d) ==
    /\ d[1] >= 2024
    /\ d[2] \in 1..12
    /\ d[3] \in 1..DaysInMonth(d[1], d[2])

RECURSIVE DaysBeforeYear(_)
DaysBeforeYear(y) == IF y <= 2024 THEN 0 ELSE DaysBeforeYear(y - 1) + DaysInYear(y - 1)

RECURSIVE DaysBeforeMonth(_, _)
DaysBeforeMonth(y, m) ==
    IF m <= 1 THEN 0 ELSE DaysBeforeMonth(y, m - 1) + DaysInMonth(y, m - 1)

\* pd.to_datetime of one cell
to_datetime(d) == DaysBeforeYear(d[1]) + DaysBeforeMonth(d[1], d[2]) + (d[3] - 1)

RECURSIVE DateFrom(_, _, _)
DateFrom(y, m, n) ==
    IF n >= DaysInYear(y) /\ m = 1 THEN DateFrom(y + 1, 1, n - DaysInYear(y))
    ELSE IF n >= DaysInMonth(y, m) THEN DateFrom(y, m + 1, n - DaysInMonth(y, m))
    ELSE <<y, m, n + 1>>

\* Timestamp.strftime('%Y-%m-%d')
strftime(t) == DateFrom(2024, 1, t)

----------------------------------------------------------------------------
(* Series: a function from an index set (row labels or group keys) to      *)
(* integers.                                                               *)

SeriesCount(f) == Cardinality(DOMAIN f)
SeriesValues(f) == {f[k] : k \in DOMAIN f}

\* sum of v * (number of entries equal to v) over the distinct values V
RECURSIVE SumOver(_, _)
SumOver(f, V) ==
    IF V = {} THEN 0
    ELSE LET v == CHOOSE v \in V : TRUE
         IN  v * Cardinality({i \in DOMAIN f : f[i] = v}) + SumOver(f, V \ {v})

SeriesSum(f) == SumOver(f, SeriesValues(f))

\* k-th smallest value (k = 1 is the minimum) of a non-empty series.
OrderStat(f, k) ==
    SetMin({v \in SeriesValues(f) : Cardinality({i \in DOMAIN f : f[i] <= v}) >= k})

\* Series.quantile(q4 / 4) with numpy's default linear interpolation, times 4:
\* position (n-1)*q, value s[lo] + frac * (s[lo+1] - s[lo]).  NaN when empty.
QuantileNearest4(f, q4) ==
    IF SeriesCount(f) = 0 THEN NaN
    ELSE LET pos4 == (SeriesCount(f) - 1) * q4
             lo   == pos4 \div 4
             rem  == pos4 % 4
         IN  Some(4 * OrderStat(f, IF rem >= 2 THEN lo + 2 ELSE lo + 1))

Quantile4(f, q4) ==
    IF SeriesCount(f) = 0 THEN NaN
    ELSE LET pos4 == (SeriesCount(f) - 1) * q4
             lo   == pos4 \div 4
             rem  == pos4 % 4
             a    == OrderStat(f, lo + 1)
             b    == IF rem = 0 THEN a ELSE OrderStat(f, lo + 2)
         IN  Some(4 * a + rem * (b - a))

\* round(num / den, 2) in hundredths (ties to even, as numpy and Python round).
Round2(num, den) ==
    LET q == (100 * num) \div den
        r == (100 * num) % den
    IN  IF 2 * r < den THEN q
        ELSE IF 2 * r > den THEN q + 1
        ELSE IF q % 2 = 0 THEN q ELSE q + 1

\* int(x) of a non-negative x = num / den
IntOf(num, den) == num \div den

----------------------------------------------------------------------------
(* 1. Temporal analysis (lines 32-59) *)

\* the group key of row r under df.groupby(by), by a list of column names
GroupKey(r, by) == [k \in DOMAIN by |-> r[by[k]]]

\* df.groupby(by).size(): per group, the number of rows
GroupSize(rows, by) ==
    [k \in {GroupKey(rows[i], by) : i \in DOMAIN rows} |->
        Cardinality({i \in DOMAIN rows : GroupKey(rows[i], by) = k})]

\* df.groupby(by)['date'].nunique(): per group, the number of distinct
\* values of the date column (the cell text, not the parsed Timestamp).
NUnique(rows, by) ==
    [k \in {GroupKey(rows[i], by) : i \in DOMAIN rows} |->
        Cardinality({rows[i].date :
                        i \in {j \in DOMAIN rows : GroupKey(rows[j], by) = k}})]

\* Series.describe() of a non-empty integer series: the entries the code
\* reads.  mean is the exact fraction <<sum, count>>, '50%' is times 4.
Describe(f) ==
    [count |-> SeriesCount(f),
     mean  |-> <<SeriesSum(f), SeriesCount(f)>>,
     min   |-> SetMin(SeriesValues(f)),
     q50   |-> Quantile4(f, 2),
     max   |-> SetMax(SeriesValues(f))]

\* line 36, with groupby(...).size() in place of ['date'].nunique()
location_days_by_size(rows) == Describe(GroupSize(rows, <<"latitude", "longitude">>))

\* line 36
location_days(rows) == Describe(NUnique(rows, <<"latitude", "longitude">>))

\* line 39
city_days(rows) == Describe(NUnique(rows, <<"city">>))

\* lines 47-52 and 53-58: min, max are integers, mean is in hundredths,
\* median is int(...) of the 50% entry.
DaysSummary(d) ==
    [min    |-> d.min,
     max    |-> d.max,
     mean   |-> Round2(d.mean[1], d.mean[2]),
     median |-> IntOf(Val(d.q50), 4)]

date_range(rows) == {to_datetime(rows[i].date) : i \in DOMAIN rows}

TemporalData(rows) ==
    [date_range |-> [start |-> strftime(SetMin(date_range(rows))),
                     end   |-> strftime(SetMax(date_range(rows)))],
     days_per_location |-> DaysSummary(location_days(rows)),
     days_per_city     |-> DaysSummary(city_days(rows))]

KeyError(col) == [type |-> "KeyError", msg |-> col]
ValueError(m) == [type |-> "ValueError", msg |-> m]

\* What lines 33-59 raise, None when they complete.
TemporalRaises(d) ==
    IF "date" \notin d.columns THEN KeyError("date")
    ELSE IF \E i \in DOMAIN d.rows : ~ValidDate(d.rows[i].date)
        THEN ValueError("time data doesn't match format")
    ELSE IF "latitude" \notin d.columns THEN KeyError("latitude")
    ELSE IF "longitude" \notin d.columns THEN KeyError("longitude")
    ELSE IF "city" \notin d.columns THEN KeyError("city")
    ELSE IF d.rows = <<>> THEN ValueError("NaTType does not support strftime")
    ELSE None

\* line 62: `min_days and min < min_days` (None and 0 are falsy)
MinDaysViolatedInclusive(min_days, m) ==
    min_days # None /\ Val(min_days) # 0 /\ m <= Val(min_days)

MinDaysViolated(min_days, m) ==
    min_days # None /\ Val(min_days) # 0 /\ m < Val(min_days)

----------------------------------------------------------------------------
(* 2. Spatial coverage (lines 68-81) *)

Cities(rows) == {rows[i].city : i \in DOMAIN rows}

\* len(df[df['city'] == city].groupby(['latitude', 'longitude']).size())
NLocations(rows, city) ==
    SeriesCount(GroupSize(SelectSeq(rows, LAMBDA r : r.city = city),
                          <<"latitude", "longitude">>))

CityLocationsAll(rows) ==
    [c \in {c \in Cities(rows) : NLocations(rows, c) >= 1} |-> NLocations(rows, c)]

CityLocations(rows) ==
    [c \in {c \in Cities(rows) : NLocations(rows, c) > 1} |-> NLocations(rows, c)]

SpatialData(rows) ==
    [total_cities |-> Cardinality(Cities(rows)),
     cities_with_multiple_points |-> CityLocations(rows)]

----------------------------------------------------------------------------
(* 3. Data quality (lines 83-95) *)

\* a > b on nullable cells: False when either is NaN
Gt(a, b) == ~IsNull(a) /\ ~IsNull(b) /\ Val(a) > Val(b)
Lt(a, b) == Gt(b, a)

NullableColumns == {"temp", "temp_min", "temp_max"}

Cell(r, col) ==
    IF col = "temp" THEN r.temp
    ELSE IF col = "temp_min" THEN r.temp_min
    ELSE r.temp_max

\* df.isnull().sum().to_dict(); only temp, temp_min, temp_max hold NaN here
MissingValues(d) ==
    [col \in d.columns |->
        IF col \in NullableColumns
        THEN Cardinality({i \in DOMAIN d.rows : IsNull(Cell(d.rows[i], col))})
        ELSE 0]

Inconsistent(r) ==
    Gt(r.temp_min, r.temp) \/ Lt(r.temp_max, r.temp) \/ Gt(r.temp_min, r.temp_max)

\* the rows selected at lines 85-89, as the set of their labels
TempInconsistencies(rows) == {i \in DOMAIN rows : Inconsistent(rows[i])}

QualityData(d) ==
    [missing_values |-> MissingValues(d),
     temperature_inconsistencies |-> Cardinality(TempInconsistencies(d.rows))]

QualityRaises(d) ==
    IF "temp_min" \notin d.columns THEN KeyError("temp_min")
    ELSE IF "temp" \notin d.columns THEN KeyError("temp")
    ELSE IF "temp_max" \notin d.columns THEN KeyError("temp_max")
    ELSE None

----------------------------------------------------------------------------
(* 4. Weather patterns (lines 97-99) *)

\* df['description'].value_counts().to_dict() (the dict, not its order)
WeatherPatterns(rows) ==
    [w \in {rows[i].description : i \in DOMAIN rows} |->
        Cardinality({i \in DOMAIN rows : rows[i].description = w})]

PatternsRaises(d) ==
    IF "description" \notin d.columns THEN KeyError("description") ELSE None

----------------------------------------------------------------------------
(* 5. Statistical summary (lines 101-104) *)

numeric_columns == <<"temp", "pressure", "humidity", "wind_speed">>

\* the temp column without its NaN cells, indexed by row label
TempSeries(rows) ==
    [i \in {j \in DOMAIN rows : ~IsNull(rows[j].temp)} |-> Val(rows[i].temp)]

RoundQ(q) == IF IsNull(q) THEN NaN ELSE Some(Round2(Val(q), 4))

\* df[numeric_columns].describe().round(2).to_dict(), the temp entry (std is
\* left out: it is not rational); the other three columns hold no modelled
\* data.  Values in hundredths, NaN for an all-NaN column.
StatsSummary(rows) ==
    LET s == TempSeries(rows)
        n == SeriesCount(s)
    IN [temp |->
         [count |-> n,
          mean  |-> IF n = 0 THEN NaN ELSE Some(Round2(SeriesSum(s), n)),
          min   |-> IF n = 0 THEN NaN ELSE Some(100 * SetMin(SeriesValues(s))),
          q25   |-> RoundQ(Quantile4(s, 1)),
          q50   |-> RoundQ(Quantile4(s, 2)),
          q75   |-> RoundQ(Quantile4(s, 3)),
          max   |-> IF n = 0 THEN NaN ELSE Some(100 * SetMax(SeriesValues(s)))]]

SummaryRaises(d) ==
    IF \E i \in DOMAIN numeric_columns : numeric_columns[i] \notin d.columns
    THEN KeyError("not in index")
    ELSE None

----------------------------------------------------------------------------
(* 6. ML suitability (lines 106-121) *)

Warn365 == "Some locations have less than 1 year of data - limited seasonal patterns"
Warn30 == "Some locations have less than 30 days of data - not suitable for monthly patterns"
Warn7 == "Some locations have less than 7 days of data - only suitable for very short-term predictions"

MLWarningsElif(m) ==
    IF m < 7 THEN <<Warn7>>
    ELSE IF m < 30 THEN <<Warn30>>
    ELSE IF m < 365 THEN <<Warn365>>
    ELSE <<>>

MLWarnings(m) ==
    (IF m < 365 THEN <<Warn365>> ELSE <<>>)
    \o (IF m < 30 THEN <<Warn30>> ELSE <<>>)
    \o (IF m < 7 THEN <<Warn7>> ELSE <<>>)

MLSuitabilityData(min_location_days) ==
    [warnings |-> MLWarnings(min_location_days),
     recommended_for_ml |-> min_location_days >= 30,
     min_days_per_location |-> min_location_days]

----------------------------------------------------------------------------
(* 7. Distribution analysis (lines 123-181) *)

\* lines 125-134.  Q1, Q3, median, IQR are times 4, the bounds times 8; every
\* entry is NaN when the temp column holds no value.
TempStats(rows) ==
    LET s  == TempSeries(rows)
        q1 == Quantile4(s, 1)
        q3 == Quantile4(s, 3)
    IN  IF SeriesCount(s) = 0
        THEN [Q1 |-> NaN, Q3 |-> NaN, median |-> NaN, IQR |-> NaN,
              lower_bound |-> NaN, upper_bound |-> NaN]
        ELSE [Q1 |-> q1, Q3 |-> q3, median |-> Quantile4(s, 2),
              IQR |-> Some(Val(q3) - Val(q1)),
              lower_bound |-> Some(2 * Val(q1) - 3 * (Val(q3) - Val(q1))),
              upper_bound |-> Some(2 * Val(q3) + 3 * (Val(q3) - Val(q1)))]

\* temp < bound and temp > bound, temp a nullable cell, bound8 times 8
TempBelow(temp, bound8) == ~IsNull(temp) /\ ~IsNull(bound8) /\ 8 * Val(temp) < Val(bound8)
TempAbove(temp, bound8) == ~IsNull(temp) /\ ~IsNull(bound8) /\ 8 * Val(temp) > Val(bound8)

\* the row mask of lines 137-140
IsOutlierInclusive(temp, ts) ==
    \/ ~TempAbove(temp, ts.lower_bound) /\ ~IsNull(temp) /\ ~IsNull(ts.lower_bound)
    \/ ~TempBelow(temp, ts.upper_bound) /\ ~IsNull(temp) /\ ~IsNull(ts.upper_bound)

IsOutlier(temp, ts) ==
    TempBelow(temp, ts.lower_bound) \/ TempAbove(temp, ts.upper_bound)

\* lines 143-147
OutlierType(temp, ts) == IF TempBelow(temp, ts.lower_bound) THEN "low" ELSE "high"

\* lines 150-154, times 8
Deviation8(temp, ts) ==
    IF OutlierType(temp, ts) = "low"
    THEN Val(ts.lower_bound) - 8 * Val(temp)
    ELSE 8 * Val(temp) - Val(ts.upper_bound)

\* temp_outliers: the selected rows, in dataset order
TempOutliers(rows, ts) ==
    LET I == {i \in DOMAIN rows : IsOutlier(rows[i].temp, ts)}
    IN  [k \in 1..Cardinality(I) |->
            rows[CHOOSE i \in I : Cardinality({j \in I : j <= i}) = k]]

\* lines 157-165
OutlierDetails(outliers, ts) ==
    [k \in DOMAIN outliers |->
        [city        |-> outliers[k].city,
         date        |-> outliers[k].date,
         temperature |-> outliers[k].temp,
         type        |-> OutlierType(outliers[k].temp, ts),
         deviation   |-> Round2(Deviation8(outliers[k].temp, ts), 8)]]

Round8(b) == IF IsNull(b) THEN NaN ELSE Some(Round2(Val(b), 8))

\* lines 167-180: statistics in hundredths
DistributionData(rows) ==
    LET ts       == TempStats(rows)
        outliers == TempOutliers(rows, ts)
    IN  [temperature_stats |->
            [Q1 |-> RoundQ(ts.Q1), median |-> RoundQ(ts.median), Q3 |-> RoundQ(ts.Q3),
             IQR |-> RoundQ(ts.IQR),
             lower_bound |-> Round8(ts.lower_bound),
             upper_bound |-> Round8(ts.upper_bound)],
         outliers |-> [count |-> Len(outliers), details |-> OutlierDetails(outliers, ts)]]

----------------------------------------------------------------------------
(* The text report (lines 186-249): one entry per printed block *)

TextReport(d, td, res) ==
    <<[kind |-> "report_header", total_records |-> Len(d.rows)],
      [kind |-> "section", n |-> 1, body |-> td],
      [kind |-> "section", n |-> 2, body |-> res.spatial_analysis],
      [kind |-> "section", n |-> 3,
       body |-> [no_missing_values |->
                    \A c \in DOMAIN res.data_quality.missing_values :
                        res.data_quality.missing_values[c] = 0,
                 missing |-> {c \in DOMAIN res.data_quality.missing_values :
                                 res.data_quality.missing_values[c] > 0}]],
      [kind |-> "section", n |-> 4, body |-> res.weather_patterns],
      [kind |-> "section", n |-> 5, body |-> res.statistical_summary],
      [kind |-> "section", n |-> 6, body |-> res.ml_suitability.warnings],
      [kind |-> "section", n |-> 7,
       body |-> [temperature_stats |-> res.distribution_analysis.temperature_stats,
                 no_outliers |-> res.distribution_analysis.outliers.count = 0,
                 outliers |-> res.distribution_analysis.outliers.details]]>>

----------------------------------------------------------------------------
(* Steps of analyze_weather_data and main *)

\* lines 253-255 are entered with the exception e
Raise(e) ==
    /\ exc' = e
    /\ pc' = "except"

Goto(p) ==
    /\ pc' = p
    /\ exc' = None

\* lines 19-30: pd.read_csv, then the results dictionary
ReadCsv ==
    /\ pc = "read_csv"
    /\ IF args.csv_file.status = "ok"
       THEN /\ df' = [columns |-> args.csv_file.columns, rows |-> args.csv_file.rows]
            /\ results' = [temporal_analysis     |-> EmptyDict,
                           spatial_analysis      |-> EmptyDict,
                           data_quality          |-> EmptyDict,
                           weather_patterns      |-> EmptyDict,
                           statistical_summary   |-> EmptyDict,
                           ml_suitability        |-> EmptyDict,
                           distribution_analysis |-> EmptyDict]
            /\ Goto("temporal")
       ELSE /\ Raise([type |-> args.csv_file.status, msg |-> args.csv_file.status])
            /\ UNCHANGED <<df, results>>
    /\ UNCHANGED <<args, temporal_data, stdout, result, exit_code>>

\* lines 32-59
TemporalAnalysis ==
    /\ pc = "temporal"
    /\ IF TemporalRaises(df) = None
       THEN /\ temporal_data' = TemporalData(df.rows)
            /\ Goto("min_days")
       ELSE /\ Raise(TemporalRaises(df))
            /\ UNCHANGED temporal_data
    /\ UNCHANGED <<args, df, results, stdout, result, exit_code>>

\* lines 61-66
MinDaysCheck ==
    /\ pc = "min_days"
    /\ IF MinDaysViolated(args.min_days, temporal_data.days_per_location.min)
       THEN /\ stdout' = stdout \o
                   <<[kind |-> "min_days_error", min_days |-> Val(args.min_days)],
                     [kind |-> "min_days_observed",
                      min |-> temporal_data.days_per_location.min]>>
            /\ result' = None
            /\ Goto("returned")
            /\ UNCHANGED results
       ELSE /\ results' = [results EXCEPT !.temporal_analysis = temporal_data]
            /\ Goto("spatial")
            /\ UNCHANGED <<stdout, result>>
    /\ UNCHANGED <<args, df, temporal_data, exit_code>>

\* lines 68-81
SpatialAnalysis ==
    /\ pc = "spatial"
    /\ results' = [results EXCEPT !.spatial_analysis = SpatialData(df.rows)]
    /\ Goto("quality")
    /\ UNCHANGED <<args, df, temporal_data, stdout, result, exit_code>>

\* lines 83-95
DataQualityDropping ==
    /\ pc = "quality"
    /\ IF QualityRaises(df) = None
       THEN /\ results' = [results EXCEPT !.data_quality = QualityData(df)]
            /\ df' = [df EXCEPT !.rows =
                        SelectSeq(df.rows, LAMBDA r : ~Inconsistent(r))]
            /\ Goto("patterns")
       ELSE /\ Raise(QualityRaises(df))
            /\ UNCHANGED <<results, df>>
    /\ UNCHANGED <<args, temporal_data, stdout, result, exit_code>>

DataQuality ==
    /\ pc = "quality"
    /\ IF QualityRaises(df) = None
       THEN /\ results' = [results EXCEPT !.data_quality = QualityData(df)]
            /\ Goto("patterns")
       ELSE /\ Raise(QualityRaises(df))
            /\ UNCHANGED results
    /\ UNCHANGED <<args, df, temporal_data, stdout, result, exit_code>>

\* lines 97-99
WeatherPatternsStep ==
    /\ pc = "patterns"
    /\ IF PatternsRaises(df) = None
       THEN /\ results' = [results EXCEPT !.weather_patterns = WeatherPatterns(df.rows)]
            /\ Goto("summary")
       ELSE /\ Raise(PatternsRaises(df))
            /\ UNCHANGED results
    /\ UNCHANGED <<args, df, temporal_data, stdout, result, exit_code>>

\* lines 101-104
StatisticalSummary ==
    /\ pc = "summary"
    /\ IF SummaryRaises(df) = None
       THEN /\ results' = [results EXCEPT !.statistical_summary = StatsSummary(df.rows)]
            /\ Goto("ml")
       ELSE /\ Raise(SummaryRaises(df))
            /\ UNCHANGED results
    /\ UNCHANGED <<args, df, temporal_data, stdout, result, exit_code>>

\* lines 106-121
MLSuitability ==
    /\ pc = "ml"
    /\ results' = [results EXCEPT !.ml_suitability =
                      MLSuitabilityData(temporal_data.days_per_location.min)]
    /\ Goto("distribution")
    /\ UNCHANGED <<args, df, temporal_data, stdout, result, exit_code>>

\* lines 123-181
DistributionAnalysis ==
    /\ pc = "distribution"
    /\ results' = [results EXCEPT !.distribution_analysis = DistributionData(df.rows)]
    /\ Goto("report")
    /\ UNCHANGED <<args, df, temporal_data, stdout, result, exit_code>>

\* lines 183-251: return the results, or print the text report and return df
Report ==
    /\ pc = "report"
    /\ IF args.output = "json"
       THEN /\ result' = results
            /\ UNCHANGED stdout
       ELSE /\ stdout' = stdout \o TextReport(df, temporal_data, results)
            /\ result' = df
    /\ Goto("returned")
    /\ UNCHANGED <<args, df, temporal_data, results, exit_code>>

\* lines 253-255
ExceptEarlyReport ==
    /\ pc = "except"
    /\ stdout' = stdout \o <<[kind |-> "processing_error", msg |-> exc.msg]>>
    /\ result' = results
    /\ pc' = "returned"
    /\ UNCHANGED <<args, df, temporal_data, results, exc, exit_code>>

Except ==
    /\ pc = "except"
    /\ stdout' = stdout \o <<[kind |-> "processing_error", msg |-> exc.msg]>>
    /\ result' = None
    /\ pc' = "returned"
    /\ UNCHANGED <<args, df, temporal_data, results, exc, exit_code>>

\* lines 273-275, then main returns and the interpreter exits with status 0
MainFinish ==
    /\ pc = "returned"
    /\ stdout' = IF args.output = "json" /\ result # None
                 THEN stdout \o <<[kind |-> "json", doc |-> result]>>
                 ELSE stdout
    /\ exit_code' = Some(0)
    /\ pc' = "exit"
    /\ UNCHANGED <<args, df, temporal_data, results, exc, result>>

----------------------------------------------------------------------------
(* Inputs: the CSV files and command lines the runs are drawn from *)

Row(city, loc, date, temp, tmin, tmax, desc) ==
    [city |-> city, latitude |-> loc[1], longitude |-> loc[2], date |-> date,
     temp |-> temp, temp_min |-> tmin, temp_max |-> tmax, description |-> desc]

CsvFile(columns, rows) == [status |-> "ok", columns |-> columns, rows |-> rows]

SeqsUpTo(S, lo, hi) == UNION {[1..n -> S] : n \in lo..hi}

Jan1 == <<2024, 1, 1>>
Jan2 == <<2024, 1, 2>>

\* two stations on one latitude
Locs == {<<6, 3>>, <<6, 4>>}

\* rows that differ in city, location and date
GroupRows ==
    {Row(c, l, d, Some(300), Some(290), Some(310), "clear sky") :
        c \in {"Lagos", "Abuja"}, l \in Locs, d \in {Jan1, Jan2}}

\* rows of one station and day that differ in temp (possibly missing)
TempRows ==
    {Row("Lagos", <<6, 3>>, Jan1, t, Some(280), Some(340), "clear sky") :
        t \in {Some(290), Some(300), Some(310), Some(330), NaN}}

\* rows of one station and day that differ in temp, temp_min and temp_max:
\* consistent, temp_min > temp, temp_max < temp, temp missing with
\* temp_min > temp_max, and a consistent hot reading
QualityRows ==
    {Row("Lagos", <<6, 3>>, Jan1, x[1], x[2], x[3], "light rain") :
        x \in {<<Some(300), Some(290), Some(340)>>,
               <<Some(300), Some(310), Some(340)>>,
               <<Some(300), Some(290), Some(295)>>,
               <<NaN, Some(310), Some(295)>>,
               <<Some(330), Some(290), Some(340)>>}}

\* one station reporting once a day for k days
DailyRows(k) ==
    [i \in 1..k |->
        Row("Lagos", <<6, 3>>, strftime(i - 1), Some(300), Some(290), Some(310),
            IF i % 3 = 0 THEN "light rain" ELSE "clear sky")]

\* the command lines tried on the small datasets: <<output, min_days>>
GroupOptions ==
    {<<"text", None>>, <<"json", Some(0)>>, <<"json", Some(2)>>}

GroupInputs ==
    {[csv_file |-> CsvFile(Columns, rows), output |-> o[1], min_days |-> o[2]] :
        rows \in SeqsUpTo(GroupRows, 1, MaxRows), o \in GroupOptions}

\* the readings of the longest files tried
SparseTempRows == {r \in TempRows : r.temp \in {Some(300), Some(330), NaN}}

TempInputs ==
    {[csv_file |-> CsvFile(Columns, rows), output |-> "json", min_days |-> None] :
        rows \in SeqsUpTo(TempRows, 0, MaxTempRows)
                 \cup SeqsUpTo(SparseTempRows, MaxTempRows + 1, MaxTempRows + 1)}

QualityInputs ==
    {[csv_file |-> CsvFile(Columns, rows), output |-> o, min_days |-> None] :
        rows \in SeqsUpTo(QualityRows, 1, MaxQRows), o \in {"text", "json"}}

\* the lengths tried: around each threshold of the ML assessment
DayCounts == {k \in 1..MaxDays : k <= 8 \/ k \in 28..32 \/ k >= 363}

DailyInputs ==
    {[csv_file |-> CsvFile(Columns, DailyRows(k)), output |-> o, min_days |-> m] :
        k \in DayCounts, o \in {"text", "json"}, m \in {None, Some(30)}}

\* files that cannot be loaded, lack a column, or hold an impossible date
BadInputs ==
    {[csv_file |-> f, output |-> o, min_days |-> m] :
        f \in {[status |-> st, columns |-> {}, rows |-> <<>>] :
                  st \in {"FileNotFoundError", "ParserError"}}
              \cup {CsvFile(Columns \ {c}, DailyRows(2)) : c \in Columns}
              \cup {CsvFile(Columns, <<Row("Lagos", <<6, 3>>, <<2024, 2, 30>>,
                                           Some(300), Some(290), Some(310),
                                           "clear sky")>>)},
        o \in {"text", "json"}, m \in {None, Some(30)}}

Inputs == GroupInputs \cup TempInputs \cup QualityInputs \cup DailyInputs \cup BadInputs

----------------------------------------------------------------------------
(* The specification *)

\* main has parsed the command line (lines 258-265) and calls
\* analyze_weather_data
Init ==
    /\ args \in Inputs
    /\ pc = "read_csv"
    /\ df = None
    /\ temporal_data = None
    /\ results = None
    /\ exc = None
    /\ stdout = <<>>
    /\ result = None
    /\ exit_code = None

Next ==
    \/ ReadCsv
    \/ TemporalAnalysis
    \/ MinDaysCheck
    \/ SpatialAnalysis
    \/ DataQuality
    \/ WeatherPatternsStep
    \/ StatisticalSummary
    \/ MLSuitability
    \/ DistributionAnalysis
    \/ Report
    \/ Except
    \/ MainFinish

Spec == Init /\ [][Next]_vars

----------------------------------------------------------------------------
(* Vocabulary of the properties, stated on the loaded file rather than on   *)
(* the operators above                                                      *)

FileRows == args.csv_file.rows

\* the group of row r: its city, or its (latitude, longitude) pair
KeyOf(r, group) == IF group = "city" THEN r.city ELSE <<r.latitude, r.longitude>>

\* the distinct dates recorded for the rows whose key is k
DatesAt(rows, group, k) ==
    {rows[i].date : i \in {j \in DOMAIN rows : KeyOf(rows[j], group) = k}}

\* the number of distinct dates of each group
DaysOf(rows, group) ==
    [k \in {KeyOf(rows[i], group) : i \in DOMAIN rows} |->
        Cardinality(DatesAt(rows, group, k))]

\* the per-group distinct-date counts, as a set
DayCountsOf(rows, group) == {DaysOf(rows, group)[k] : k \in DOMAIN DaysOf(rows, group)}

MinLocationDays(rows) == SetMin(DayCountsOf(rows, "location"))

AfterTemporal == temporal_data # None
AfterMinDays == AfterTemporal /\ pc # "min_days"
Aborted == \E k \in DOMAIN stdout : stdout[k].kind = "min_days_error"
SectionDone(section) == results # None /\ section # EmptyDict

----------------------------------------------------------------------------
(* C1 *)

\* C1: once the minimum-days check has run, with m the smallest
\* per-(latitude, longitude) distinct-date count of the file: if a threshold T
\* is given and m < T, exactly the threshold T and the observed minimum m have
\* been printed, analyze_weather_data returned None and no section of the
\* results was filled; otherwise the temporal section is stored and the run
\* went on to the spatial step.
C1_Threshold ==
    AfterMinDays =>
        LET m == MinLocationDays(FileRows)
            T == args.min_days
        IN  /\ temporal_data.days_per_location.min = m
            /\ IF T # None /\ m < Val(T)
               THEN /\ pc \in {"returned", "exit"}
                    /\ result = None
                    /\ stdout = <<[kind |-> "min_days_error", min_days |-> Val(T)],
                                  [kind |-> "min_days_observed", min |-> m]>>
                    /\ \A sec \in DOMAIN results : results[sec] = EmptyDict
               ELSE /\ ~Aborted
                    /\ results.temporal_analysis = temporal_data
                    /\ pc = "spatial" \/ results.spatial_analysis # EmptyDict

\* Scenario D: 5 days at every location, threshold 30: aborted, minimum 5
C1_Witness ==
    /\ pc = "exit"
    /\ args.min_days = Some(30)
    /\ Aborted
    /\ MinLocationDays(FileRows) = 5
    /\ stdout[2].min = 5
    /\ result = None

----------------------------------------------------------------------------
(* C2 *)

LoadFailed == args.csv_file.status # "ok"

ThresholdFailed ==
    /\ ~LoadFailed
    /\ TemporalRaises([columns |-> args.csv_file.columns, rows |-> FileRows]) = None
    /\ args.min_days # None
    /\ MinLocationDays(FileRows) < Val(args.min_days)

RenderingEmitted ==
    IF args.output = "json"
    THEN stdout = <<[kind |-> "json", doc |-> results]>>
    ELSE Len(stdout) = 8 /\ stdout[1].kind = "report_header"

\* C2: when the process has ended: after a load failure or a threshold
\* violation a diagnostic was printed, no analysis result was produced and the
\* exit status is not zero; after a run in which nothing failed the requested
\* rendering was printed.
C2_ExitBehavior ==
    pc = "exit" =>
        /\ (LoadFailed \/ ThresholdFailed) =>
              /\ stdout # <<>>
              /\ \A k \in DOMAIN stdout :
                    stdout[k].kind \in {"processing_error", "min_days_error",
                                        "min_days_observed"}
              /\ result = None
              /\ exit_code # Some(0)
        /\ (exc = None /\ ~Aborted) => RenderingEmitted

----------------------------------------------------------------------------
(* C3 *)

Details == results.distribution_analysis.outliers.details

\* row i of the file appears in outliers.details
Listed(i) ==
    \E k \in DOMAIN Details :
        /\ Details[k].city = FileRows[i].city
        /\ Details[k].date = FileRows[i].date
        /\ Details[k].temperature = FileRows[i].temp

\* temp against the fences Q1 - 1.5*IQR and Q3 + 1.5*IQR of the file's temp
\* column (ts = TempStats(FileRows) holds them times 8)
StrictlyOutside(temp, ts) ==
    /\ ~IsNull(temp) /\ ~IsNull(ts.lower_bound)
    /\ 8 * Val(temp) < Val(ts.lower_bound) \/ 8 * Val(temp) > Val(ts.upper_bound)

Within(temp, ts) ==
    /\ ~IsNull(temp) /\ ~IsNull(ts.lower_bound)
    /\ Val(ts.lower_bound) <= 8 * Val(temp)
    /\ 8 * Val(temp) <= Val(ts.upper_bound)

\* C3 as stated: after the distribution analysis every listed observation has
\* temp strictly outside the fences and every observation that is not listed
\* has temp within them.
C3_OutliersAsStated ==
    SectionDone(results.distribution_analysis) =>
        LET ts == TempStats(FileRows)
        IN  \A i \in DOMAIN FileRows :
                /\ Listed(i) => StrictlyOutside(FileRows[i].temp, ts)
                /\ ~Listed(i) => Within(FileRows[i].temp, ts)

\* C3 amended: after the distribution analysis every listed observation has
\* temp strictly outside the fences, every observation that is not listed and
\* has a temp value has it within the fences, an observation whose temp is
\* missing is never listed, and outliers.count is the number of observations
\* strictly outside.
C3_Outliers ==
    SectionDone(results.distribution_analysis) =>
        LET ts == TempStats(FileRows)
        IN  /\ \A i \in DOMAIN FileRows :
                /\ Listed(i) => StrictlyOutside(FileRows[i].temp, ts)
                /\ (~Listed(i) /\ ~IsNull(FileRows[i].temp)) => Within(FileRows[i].temp, ts)
                /\ IsNull(FileRows[i].temp) => ~Listed(i)
            /\ results.distribution_analysis.outliers.count =
                  Cardinality({i \in DOMAIN FileRows : StrictlyOutside(FileRows[i].temp, ts)})
            /\ Len(Details) = results.distribution_analysis.outliers.count

\* an outlier is listed next to an observation inside the fences and one
\* without a temp
C3_Witness ==
    /\ SectionDone(results.distribution_analysis)
    /\ \E i \in DOMAIN FileRows : Listed(i)
    /\ \E j \in DOMAIN FileRows : ~Listed(j) /\ ~IsNull(FileRows[j].temp)
    /\ \E k \in DOMAIN FileRows : IsNull(FileRows[k].temp)

----------------------------------------------------------------------------
(* C4 *)

\* the temp column of the file, all values present
TempsAre(temps) ==
    /\ Len(FileRows) = Len(temps)
    /\ \A i \in DOMAIN temps : FileRows[i].temp = Some(temps[i])
    /\ \A i, j \in DOMAIN FileRows :
        /\ FileRows[i].city = FileRows[j].city
        /\ KeyOf(FileRows[i], "location") = KeyOf(FileRows[j], "location")
        /\ FileRows[i].date = FileRows[j].date

ScenarioA ==
    TempsAre(<<290, 300, 310>>) =>
        /\ results.distribution_analysis.temperature_stats =
              [Q1 |-> Some(29500), median |-> Some(30000), Q3 |-> Some(30500),
               IQR |-> Some(1000), lower_bound |-> Some(28000),
               upper_bound |-> Some(32000)]
        /\ results.distribution_analysis.outliers = [count |-> 0, details |-> <<>>]

\* C4 as stated: for temps [290, 300, 310, 330] exactly one outlier is
\* reported, the 330 K row, of type "high" with deviation 10; for
\* [290, 300, 310] Scenario A's statistics and no outliers.
C4_ScenariosAsStated ==
    SectionDone(results.distribution_analysis) =>
        /\ ScenarioA
        /\ TempsAre(<<290, 300, 310, 330>>) =>
              /\ results.distribution_analysis.outliers.count = 1
              /\ Len(Details) = 1
              /\ Details[1].temperature = Some(330)
              /\ Details[1].type = "high"
              /\ Details[1].deviation = 1000

\* C4 amended: for temps [290, 300, 310, 330] the analysis reports Q1=297.5,
\* median=305, Q3=315, IQR=17.5, bounds [271.25, 341.25] and no outliers (330
\* lies below the upper bound); for [290, 300, 310] it reports Q1=295,
\* median=300, Q3=305, IQR=10, bounds [280, 320] and no outliers.
C4_Scenarios ==
    SectionDone(results.distribution_analysis) =>
        /\ ScenarioA
        /\ TempsAre(<<290, 300, 310, 330>>) =>
              /\ results.distribution_analysis.temperature_stats =
                    [Q1 |-> Some(29750), median |-> Some(30500), Q3 |-> Some(31500),
                     IQR |-> Some(1750), lower_bound |-> Some(27125),
                     upper_bound |-> Some(34125)]
              /\ results.distribution_analysis.outliers = [count |-> 0, details |-> <<>>]

C4_Witness ==
    /\ SectionDone(results.distribution_analysis)
    /\ TempsAre(<<290, 300, 310, 330>>)
    /\ results.distribution_analysis.outliers.count = 0

----------------------------------------------------------------------------
(* C5 *)

\* 4 times the 50th percentile, linear interpolation between the closest
\* ranks, of the per-group distinct-date counts
Median4(rows, group) == Val(Quantile4(DaysOf(rows, group), 2))

\* C5: the medians reported in days_per_location and days_per_city are the
\* interpolated 50th percentiles of the per-group distinct-date counts (a
\* half-integer midpoint is reported as such).
C5_Median ==
    AfterTemporal =>
        /\ 4 * temporal_data.days_per_location.median = Median4(FileRows, "location")
        /\ 4 * temporal_data.days_per_city.median = Median4(FileRows, "city")

----------------------------------------------------------------------------
(* C6 *)

\* C6: once the ML-suitability step has run, with m the smallest
\* per-location distinct-date count of the file: the 1-year warning is in the
\* list iff m < 365, the 30-day warning iff m < 30, the 7-day warning iff
\* m < 7, no warning is repeated, and recommended_for_ml is true iff m >= 30.
C6_Warnings ==
    SectionDone(results.ml_suitability) =>
        LET m == MinLocationDays(FileRows)
            w == results.ml_suitability.warnings
            W == {w[k] : k \in DOMAIN w}
        IN  /\ (Warn365 \in W) <=> (m < 365)
            /\ (Warn30 \in W) <=> (m < 30)
            /\ (Warn7 \in W) <=> (m < 7)
            /\ W \subseteq {Warn365, Warn30, Warn7}
            /\ Len(w) = Cardinality(W)
            /\ results.ml_suitability.recommended_for_ml <=> (m >= 30)

\* three days of data: all three warnings together, not recommended
C6_Witness ==
    /\ SectionDone(results.ml_suitability)
    /\ MinLocationDays(FileRows) = 3
    /\ Len(results.ml_suitability.warnings) = 3
    /\ ~results.ml_suitability.recommended_for_ml

----------------------------------------------------------------------------
(* C7 *)

\* C7: once a step has raised, the run never resumes an analysis step or
\* reads the file again; nothing was printed before the failure, the only
\* thing printed after it is the processing error with the exception's
\* message, and analyze_weather_data returns None.
C7_AllOrNothing ==
    exc # None =>
        /\ pc \in {"except", "returned", "exit"}
        /\ result = None
        /\ stdout = IF pc = "except" THEN <<>>
                    ELSE <<[kind |-> "processing_error", msg |-> exc.msg]>>

\* a column is found missing after the first sections were computed
C7_Witness ==
    /\ pc = "exit"
    /\ exc # None
    /\ exc.type = "KeyError"
    /\ results.spatial_analysis # EmptyDict
    /\ result = None
    /\ Len(stdout) = 1

----------------------------------------------------------------------------
(* C8 *)

LocationsOf(rows, city) ==
    {<<rows[i].latitude, rows[i].longitude>> : i \in {j \in DOMAIN rows : rows[j].city = city}}

\* C8: once the spatial step has run, total_cities is the number of distinct
\* city values and cities_with_multiple_points maps exactly the cities with
\* more than one distinct (latitude, longitude) pair, each to that number.
C8_Spatial ==
    SectionDone(results.spatial_analysis) =>
        LET cs == {FileRows[i].city : i \in DOMAIN FileRows}
            mp == results.spatial_analysis.cities_with_multiple_points
        IN  /\ results.spatial_analysis.total_cities = Cardinality(cs)
            /\ DOMAIN mp = {c \in cs : Cardinality(LocationsOf(FileRows, c)) > 1}
            /\ \A c \in DOMAIN mp : mp[c] = Cardinality(LocationsOf(FileRows, c))

\* Scenario C: one city, two locations
C8_Witness ==
    /\ SectionDone(results.spatial_analysis)
    /\ results.spatial_analysis.total_cities = 1
    /\ DOMAIN results.spatial_analysis.cities_with_multiple_points = {"Lagos"}
    /\ results.spatial_analysis.cities_with_multiple_points["Lagos"] = 2

----------------------------------------------------------------------------
(* C9 *)

\* a > b on cells where a missing value compares false
CellGt(a, b) == a # NaN /\ b # NaN /\ a[1] > b[1]

InconsistentRows(rows) ==
    {i \in DOMAIN rows :
        \/ CellGt(rows[i].temp_min, rows[i].temp)
        \/ CellGt(rows[i].temp, rows[i].temp_max)
        \/ CellGt(rows[i].temp_min, rows[i].temp_max)}

\* C9: once the data-quality step has run, temperature_inconsistencies is the
\* number of rows with temp_min > temp or temp_max < temp or
\* temp_min > temp_max, the DataFrame still holds every row of the file, and
\* each later section, once computed, covers every row of the file.
C9_QualityFrame ==
    SectionDone(results.data_quality) =>
        /\ results.data_quality.temperature_inconsistencies =
              Cardinality(InconsistentRows(FileRows))
        /\ df = [columns |-> args.csv_file.columns, rows |-> FileRows]
        /\ SectionDone(results.weather_patterns) =>
              \A w \in {FileRows[i].description : i \in DOMAIN FileRows} :
                  /\ w \in DOMAIN results.weather_patterns
                  /\ results.weather_patterns[w] =
                        Cardinality({i \in DOMAIN FileRows : FileRows[i].description = w})
        /\ SectionDone(results.statistical_summary) =>
              results.statistical_summary.temp.count =
                  Cardinality({i \in DOMAIN FileRows : FileRows[i].temp # NaN})
        /\ SectionDone(results.ml_suitability) =>
              results.ml_suitability.min_days_per_location = MinLocationDays(FileRows)
        /\ SectionDone(results.distribution_analysis) =>
              LET ts == TempStats(FileRows)
              IN  results.distribution_analysis.outliers.count =
                     Cardinality({i \in DOMAIN FileRows :
                                     StrictlyOutside(FileRows[i].temp, ts)})

\* an inconsistent row was counted and the later sections still ran over all
\* rows, the outlier analysis reporting an outlier
C9_Witness ==
    /\ pc = "exit"
    /\ SectionDone(results.distribution_analysis)
    /\ results.data_quality.temperature_inconsistencies >= 1
    /\ results.distribution_analysis.outliers.count >= 1
    /\ results.statistical_summary.temp.count = Len(FileRows)

----------------------------------------------------------------------------
(* C10 *)

\* the rows tried as the row to repeat: the first ones and the last one
RepeatedRows(rows) == {i \in DOMAIN rows : i <= 4 \/ i = Len(rows)}

\* row r again, with another reading on the same day at the same place
SameDayRow(r) == [r EXCEPT !.temp = Some(305), !.description = "mist"]

DaysSummaryOk(summary, rows, group) ==
    LET counts == DayCountsOf(rows, group)
    IN  /\ summary.min = SetMin(counts)
        /\ summary.max = SetMax(counts)
        /\ summary.min <= summary.max
        /\ 100 * summary.min <= summary.mean /\ summary.mean <= 100 * summary.max
        /\ summary.min <= summary.median /\ summary.median <= summary.max

\* C10: once the temporal statistics are computed, days_per_location and
\* days_per_city report the smallest and largest number of distinct dates of
\* a group, min <= max, mean and median lie between them, and a file with one
\* more row for a location, city and date it already holds yields the same
\* days_per_location and days_per_city.
C10_DistinctDays ==
    pc = "min_days" =>
        /\ DaysSummaryOk(temporal_data.days_per_location, FileRows, "location")
        /\ DaysSummaryOk(temporal_data.days_per_city, FileRows, "city")
        /\ \A i \in RepeatedRows(FileRows) :
              LET more == TemporalData(Append(FileRows, SameDayRow(FileRows[i])))
              IN  /\ more.days_per_location = temporal_data.days_per_location
                  /\ more.days_per_city = temporal_data.days_per_city

\* three rows of one location and city, two of them on the same day: two days
C10_Witness ==
    /\ pc = "min_days"
    /\ Len(FileRows) = 3
    /\ \E i, j \in DOMAIN FileRows :
        /\ i < j
        /\ KeyOf(FileRows[i], "location") = KeyOf(FileRows[j], "location")
        /\ FileRows[i].city = FileRows[j].city
        /\ FileRows[i].date = FileRows[j].date
    /\ temporal_data.days_per_location = [min |-> 2, max |-> 2, mean |-> 200, median |-> 2]
    /\ temporal_data.days_per_city = [min |-> 2, max |-> 2, mean |-> 200, median |-> 2]

====
